---------------------------- MODULE Spec2Model ----------------------------
(***************************************************************************)
(* Model of streamlit_app_2.py: the pricing formula calculate_price, the   *)
(* synthetic series generator generate_fake_data, and the script body main *)
(* as Streamlit runs it (once when the session opens, and again from the   *)
(* top after every widget interaction).                                    *)
(*                                                                         *)
(* Numbers.  Python floats are modelled in two ways.  The pricing formula  *)
(* is computed over exact rationals (records [n, d], d > 0, in lowest      *)
(* terms), so that algebraic identities can be tested exactly.  The        *)
(* generated table holds fixed-point values, integers in units of 1/Scale, *)
(* which stands for the rounding of binary64.                              *)
(***************************************************************************)
EXTENDS Integers, Sequences, FiniteSets, TLC

VARIABLES
    call,         \* harness: the function called and its arguments
    ret,          \* harness: the outcome of the call
    rng,          \* session: state of numpy's global random source
    clock,        \* session: datetime.now() of the latest run, in hours
    widgets,      \* session: Streamlit's widget state
    df,           \* session: the table the latest run of main generated
    view,         \* session: what the latest run of main displayed
    runs,         \* session: runs of main so far
    gen_calls,    \* session: calls of generate_fake_data so far
    price_calls   \* session: calls of calculate_price so far

vars == <<call, ret, rng, clock, widgets, df, view, runs, gen_calls, price_calls>>

session_vars == <<rng, clock, widgets, df, view, runs, gen_calls, price_calls>>

(***************************************************************************)
(* Exact rational arithmetic.                                              *)
(***************************************************************************)
Abs(x) == IF x < 0 THEN 0 - x ELSE x

RECURSIVE Gcd(_, _)
Gcd(a, b) == IF b = 0 THEN a ELSE Gcd(b, a % b)

Rat(n, d) ==
    LET s == IF d < 0 THEN 0 - 1 ELSE 1
        g == Gcd(Abs(n), Abs(d))
    IN  [n |-> (s * n) \div g, d |-> (s * d) \div g]

RInt(k) == [n |-> k, d |-> 1]

RZero == RInt(0)

ROne == RInt(1)

\* Sums are formed over the least common denominator.
RAdd(a, b) ==
    LET g == Gcd(a.d, b.d)
    IN  Rat(a.n * (b.d \div g) + b.n * (a.d \div g), (a.d \div g) * b.d)

RNeg(a) == [n |-> 0 - a.n, d |-> a.d]

RSub(a, b) == RAdd(a, RNeg(b))

\* Cross-cancel before multiplying, so that intermediate products stay small.
RMul(a, b) ==
    LET g1 == Gcd(Abs(a.n), b.d)
        g2 == Gcd(Abs(b.n), a.d)
        h1 == IF g1 = 0 THEN 1 ELSE g1
        h2 == IF g2 = 0 THEN 1 ELSE g2
    IN  Rat((a.n \div h1) * (b.n \div h2), (a.d \div h2) * (b.d \div h1))

\* Defined only for b # 0.
RQuot(a, b) == RMul(a, [n |-> IF b.n < 0 THEN 0 - b.d ELSE b.d, d |-> Abs(b.n)])

RLt(a, b) == RSub(a, b).n < 0

RLe(a, b) == RSub(a, b).n <= 0

RMin(a, b) == IF RLe(a, b) THEN a ELSE b

RMax(a, b) == IF RLe(a, b) THEN b ELSE a

(***************************************************************************)
(* Outcomes of a call: a returned value or a raised exception.             *)
(***************************************************************************)
Return(v) == [kind |-> "return", value |-> v]

Raise(e) == [kind |-> "raise", exc |-> e]

Pending == [kind |-> "pending"]

None == [kind |-> "none"]

(***************************************************************************)
(* calculate_price (lines 104-105).                                        *)
(*     return base_cost / (1 - margin) * (1 - volume_discount)             *)
(* Python evaluates left to right: the quotient first, then the product.   *)
(* A float division by zero raises ZeroDivisionError; nothing else in the  *)
(* function raises and nothing validates the arguments.                    *)
(***************************************************************************)
\* A default copied from the slider's default (line 117).
volume_discount_default_slider == Rat(5, 100)

volume_discount_default == RZero

\* Variants of calculate_price, each with one slip in the formula.
calculate_price_times_margin(base_cost, margin, volume_discount) ==
    Return(RMul(RMul(base_cost, RSub(ROne, margin)), RSub(ROne, volume_discount)))

calculate_price_surcharge(base_cost, margin, volume_discount) ==
    LET denom == RSub(ROne, margin)
    IN  IF denom.n = 0
        THEN Raise("ZeroDivisionError")
        ELSE Return(RMul(RQuot(base_cost, denom), RAdd(ROne, volume_discount)))

calculate_price_flat_discount(base_cost, margin, volume_discount) ==
    LET denom == RSub(ROne, margin)
    IN  IF denom.n = 0
        THEN Raise("ZeroDivisionError")
        ELSE Return(RSub(RQuot(base_cost, denom), volume_discount))

calculate_price(base_cost, margin, volume_discount) ==
    LET denom == RSub(ROne, margin)
    IN  IF denom.n = 0
        THEN Raise("ZeroDivisionError")
        ELSE Return(RMul(RQuot(base_cost, denom), RSub(ROne, volume_discount)))

\* A call that omits volume_discount.
calculate_price2(base_cost, margin) ==
    calculate_price(base_cost, margin, volume_discount_default)

(***************************************************************************)
(* PRODUCTS (lines 13-84): the static catalogue.  Only the unit of measure *)
(* and the material reach the pricing tab's output (lines 152, 159); the   *)
(* attribute choice lists only populate select boxes.                      *)
(***************************************************************************)
PRODUCTS ==
    [p \in {"Rectangular Duct", "Round Pipes", "Elbows", "Reducers", "Dampers",
            "Boots", "Take Offs", "Spiral Pipes", "Flex Pipes", "Caps", "Tees",
            "Collars", "Insulation Sleeves"} |->
        [unit |->
            IF p = "Rectangular Duct" THEN "sq ft"
            ELSE IF p \in {"Round Pipes", "Spiral Pipes", "Flex Pipes",
                           "Insulation Sleeves"} THEN "linear ft"
            ELSE "piece",
         material |->
            IF p = "Flex Pipes" THEN "Aluminum"
            ELSE IF p = "Insulation Sleeves" THEN "Fiberglass"
            ELSE "Galvanized Steel"]]

(***************************************************************************)
(* Fixed-point numbers of the generated table: integers in units of        *)
(* 1/Scale.  Division rounds toward minus infinity.                        *)
(***************************************************************************)
Scale == 10 * 10 * 10

Fx(n, d) == (n * Scale) \div d

(***************************************************************************)
(* np.sin(np.arange(days) * 2 * np.pi / 365) (lines 94-99), entry i.       *)
(* The angle 2*pi*i/365 is reduced to the first quadrant, where            *)
(* sin(pi*q/365) is summed from its Taylor series in units of 1/SinUnit.   *)
(***************************************************************************)
SinUnit == 100 * 100

PiFx == 31416

\* x - x^3/3! + x^5/5! - x^7/7! + x^9/9! - x^11/11!, for 0 <= x <= pi/2.
SinTaylor(x) ==
    LET x2 == (x * x) \div SinUnit
        t3 == (x * x2) \div (SinUnit * 6)
        t5 == (t3 * x2) \div (SinUnit * 20)
        t7 == (t5 * x2) \div (SinUnit * 42)
        t9 == (t7 * x2) \div (SinUnit * 72)
        t11 == (t9 * x2) \div (SinUnit * 110)
    IN  x - t3 + t5 - t7 + t9 - t11

SinQuadrant(q) == SinTaylor((PiFx * q) \div 365)

\* sin(2*pi*p/365) for a phase 0 <= p < 365, in units of 1/SinUnit.
SinPhase(p) ==
    IF 4 * p <= 365 THEN SinQuadrant(2 * p)
    ELSE IF 4 * p <= 730 THEN SinQuadrant(365 - 2 * p)
    ELSE IF 4 * p <= 1095 THEN 0 - SinQuadrant(2 * p - 365)
    ELSE 0 - SinQuadrant(730 - 2 * p)

SinTable == [p \in 0..364 |-> SinPhase(p)]

\* amplitude * sin(2*pi*i/365) in table units; amplitude is in table units.
seasonal(amplitude, i) == (amplitude * SinTable[i % 365]) \div SinUnit

(***************************************************************************)
(* numpy's global random source.  The script never seeds it, so its state  *)
(* when the session opens is arbitrary, and every draw advances it.  The   *)
(* generator itself (the Mersenne Twister) is replaced by a counter-based  *)
(* stand-in of period RngModulus: draw number k from state s is the        *)
(* multiplicative hash of s + k.                                           *)
(***************************************************************************)
RngModulus == 32768

RngMultiplier == 20251

raw_draw(s, k) == (((s + k) % RngModulus) * RngMultiplier) % RngModulus

rng_advance(s, n) == (s + n) % RngModulus

\* np.random.uniform(lo, hi): lo, hi in table units; result in [lo, hi).
uniform(lo, hi, u) == lo + ((hi - lo) * u) \div RngModulus

\* np.random.randint(lo, hi): an integer in [lo, hi).
randint(lo, hi, u) == lo + ((hi - lo) * u) \div RngModulus

\* np.random.normal(0, sigma): a symmetric stand-in, sigma * z with z in -2..2.
normal(sigma, u) == sigma * (((5 * u) \div RngModulus) - 2)

\* Folds over col[lo..hi] split the range in halves, which keeps the
\* evaluation shallow for a 365-row column.
RECURSIVE range_sum(_, _, _)
range_sum(col, lo, hi) ==
    IF lo > hi THEN 0
    ELSE IF lo = hi THEN col[lo]
    ELSE LET mid == (lo + hi) \div 2
         IN  range_sum(col, lo, mid) + range_sum(col, mid + 1, hi)

RECURSIVE range_min(_, _, _)
range_min(col, lo, hi) ==
    IF lo = hi THEN col[lo]
    ELSE LET mid == (lo + hi) \div 2
             a == range_min(col, lo, mid)
             b == range_min(col, mid + 1, hi)
         IN  IF a <= b THEN a ELSE b

RECURSIVE range_max(_, _, _)
range_max(col, lo, hi) ==
    IF lo = hi THEN col[lo]
    ELSE LET mid == (lo + hi) \div 2
             a == range_max(col, lo, mid)
             b == range_max(col, mid + 1, hi)
         IN  IF a >= b THEN a ELSE b

\* np.cumsum: the running totals of s[lo..hi], started from base.
RECURSIVE running_totals(_, _, _, _)
running_totals(s, lo, hi, base) ==
    IF lo > hi THEN <<>>
    ELSE IF lo = hi THEN <<base + s[lo]>>
    ELSE LET mid == (lo + hi) \div 2
         IN  CHOOSE out \in
                 {left \o running_totals(s, mid + 1, hi, left[Len(left)]) :
                      left \in {running_totals(s, lo, mid, base)}} : TRUE

cumsum(s) == running_totals(s, 1, Len(s), 0)

(***************************************************************************)
(* Dates are instants counted in hours; timedelta(days=k) is 24 k hours.   *)
(***************************************************************************)
timedelta(days) == 24 * days

\* pd.date_range(start, end, freq='D'): start, start + 1 day, ... while <= end.
date_range(start, end) ==
    IF start > end THEN <<>>
    ELSE [k \in 1..(((end - start) \div timedelta(1)) + 1) |->
              start + timedelta(k - 1)]

(***************************************************************************)
(* generate_fake_data (lines 87-101).  now is datetime.now() and s is the  *)
(* state of the random source at the call.  The columns are built in the   *)
(* order of the dict literal, each numpy call taking `days` draws; a       *)
(* negative size makes the first np.random call raise ValueError, and      *)
(* pd.DataFrame raises ValueError when the columns differ in length.       *)
(***************************************************************************)
days_default == 365

Columns == {"Date", "Steel_Cost", "Aluminum_Cost", "Fiberglass_Cost",
            "Labor_Rate", "Electricity_Cost", "Order_Volume"}

\* One entry of Order_Volume (line 99): the integer draw r plus
\* 100 * sin(2*pi*i/365), in table units.
Order_Volume_entry_clamped(r, i) ==
    LET v == r * Scale + seasonal(100 * Scale, i) IN IF v < 0 THEN 0 ELSE v

Order_Volume_entry(r, i) == r * Scale + seasonal(100 * Scale, i)

start_date_of_days_back(end_date, days) == end_date - timedelta(days)

start_date_of(end_date, days) == end_date - timedelta(days - 1)

DataFrame(data) ==
    IF \A c \in DOMAIN data : Len(data[c]) = Len(data.Date)
    THEN Return(data)
    ELSE Raise("ValueError")

generate_fake_data(days, now, s) ==
    LET end_date == now
        start_date == start_date_of(end_date, days)
        date_range_ == date_range(start_date, end_date)
        idx == 1..days
        walk == cumsum([k \in idx |-> normal(Fx(1, 100), raw_draw(s, 4 * days + k))])
        data ==
            [Date |-> date_range_,
             Steel_Cost |-> [k \in idx |->
                 uniform(Fx(1, 2), Fx(1, 1), raw_draw(s, k))
                     + seasonal(Fx(1, 10), k - 1)],
             Aluminum_Cost |-> [k \in idx |->
                 uniform(Fx(1, 1), Fx(3, 2), raw_draw(s, days + k))
                     + seasonal(Fx(15, 100), k - 1)],
             Fiberglass_Cost |-> [k \in idx |->
                 uniform(Fx(3, 10), Fx(6, 10), raw_draw(s, 2 * days + k))
                     + seasonal(Fx(5, 100), k - 1)],
             Labor_Rate |-> [k \in idx |->
                 uniform(Fx(20, 1), Fx(30, 1), raw_draw(s, 3 * days + k))
                     + walk[k]],
             Electricity_Cost |-> [k \in idx |->
                 uniform(Fx(1, 10), Fx(2, 10), raw_draw(s, 5 * days + k))
                     + seasonal(Fx(2, 100), k - 1)],
             Order_Volume |-> [k \in idx |->
                 Order_Volume_entry(randint(50, 500, raw_draw(s, 6 * days + k)),
                                    k - 1)]]
    IN  IF days < 0 THEN Raise("ValueError") ELSE DataFrame(data)

\* The state of the random source after generate_fake_data(days) returned.
rng_after_generate(days, s) == rng_advance(s, 7 * days)

(***************************************************************************)
(* np.linspace(start, stop, num), 0-based entry k, over rationals.         *)
(***************************************************************************)
linspace(start, stop, num, k) ==
    RAdd(start, RMul(RInt(k), RQuot(RSub(stop, start), RInt(num - 1))))

(***************************************************************************)
(* A call of calculate_price in main (lines 157, 169, 187).  The slider    *)
(* value volume_discount (line 117) is in scope at each of them and none   *)
(* passes it: the parameter takes its default.                             *)
(***************************************************************************)
main_price_discounted(base_cost, target_margin, volume_discount) ==
    calculate_price(base_cost, target_margin, volume_discount)

main_price(base_cost, target_margin, volume_discount) ==
    calculate_price2(base_cost, target_margin)

(***************************************************************************)
(* The price-sensitivity sweep of main (lines 168-169):                    *)
(*     margin_range = np.linspace(0.1, 0.5, 100)                           *)
(*     prices = [calculate_price(base_cost, m) for m in margin_range]      *)
(***************************************************************************)
margin_points == 100

margin_range == [k \in 1..margin_points |->
                    linspace(Rat(1, 10), Rat(1, 2), margin_points, k - 1)]

price_sensitivity(base_cost, volume_discount) ==
    [k \in 1..margin_points |->
        main_price(base_cost, margin_range[k], volume_discount)]

(***************************************************************************)
(* Column statistics of the table (pandas mean, min, max), as rationals.   *)
(* The mean is rounded to the table's resolution.                          *)
(***************************************************************************)
mean(col) == Rat(range_sum(col, 1, Len(col)) \div Len(col), Scale)

min_of(col) == Rat(range_min(col, 1, Len(col)), Scale)

max_of(col) == Rat(range_max(col, 1, Len(col)), Scale)

(***************************************************************************)
(* Streamlit widgets.  A widget returns the value the user last gave it,   *)
(* or its default.  A widget is identified by its label and parameters: an *)
(* entry made under another label or default value belongs to a widget     *)
(* that no longer exists, and the widget drawn now returns its default.    *)
(***************************************************************************)
NoEntry == [kind |-> "none"]

Entry(id, v) == [kind |-> "entry", id |-> id, value |-> v]

number_input(entry, id, default) ==
    IF entry.kind = "entry" /\ entry.id = id THEN entry.value ELSE default

\* The widget state kept after a run: an entry of a vanished widget is dropped.
keep_entry(entry, id) ==
    IF entry.kind = "entry" /\ entry.id = id THEN entry ELSE NoEntry

(***************************************************************************)
(* main (lines 108-275), one run of the script body.  Line 112 generates   *)
(* the table with the default day count; main_body is the rest of the run  *)
(* on that table, for widget state w, but for the cost-analysis tab:  its  *)
(* grid Z (lines 183-187) is cost_surface, on the two linspace vectors     *)
(* cost_ranges computes from the table.                                    *)
(***************************************************************************)
grid_points == 100

\* ranges holds material_range and labor_range, the two linspace vectors.
cost_surface(ranges, w) ==
    [i \in 1..grid_points |-> [j \in 1..grid_points |->
        main_price(
            RAdd(RAdd(ranges.material_range[j], ranges.labor_range[i]),
                 w.overhead_cost),
            w.target_margin, w.volume_discount)]]

\* Lines 183-184.
cost_ranges(table) ==
    CHOOSE ranges \in
        {[material_range |-> [k \in 1..grid_points |->
              linspace(steel_lo, steel_hi, grid_points, k - 1)],
          labor_range |-> [k \in 1..grid_points |->
              linspace(labor_lo, labor_hi, grid_points, k - 1)]] :
            steel_lo \in {min_of(table.Steel_Cost)},
            steel_hi \in {max_of(table.Steel_Cost)},
            labor_lo \in {min_of(table.Labor_Rate)},
            labor_hi \in {max_of(table.Labor_Rate)}} : TRUE

\* Lines 257-262.
market_position(price, competitor1, competitor2) ==
    IF RLt(price, RMin(competitor1, competitor2)) THEN "success"
    ELSE IF RLt(RMax(competitor1, competitor2), price) THEN "warning"
    ELSE "info"

\* s_after is the state of the random source once line 112 has returned;
\* line 211 takes 30 more draws from it.
main_body(w, table, s_after) ==
    LET attributes == PRODUCTS[w.product]
        material_cost == number_input(w.material_cost, attributes.material, ROne)
        labor == RMul(w.labor_hours, mean(table.Labor_Rate))
        base_cost == RAdd(RAdd(material_cost, labor), w.overhead_cost)
        priced == main_price(base_cost, w.target_margin, w.volume_discount)
        price == priced.value
        default1 == RMul(price, Rat(9, 10))
        default2 == RMul(price, Rat(11, 10))
        competitor1 == number_input(w.competitor1, default1, default1)
        competitor2 == number_input(w.competitor2, default2, default2)
    IN  [df |-> table,
         price |-> price,
         unit |-> attributes.unit,
         breakdown |-> <<material_cost, labor, w.overhead_cost>>,
         prices |-> price_sensitivity(base_cost, w.volume_discount),
         competitor1 |-> competitor1,
         competitor2 |-> competitor2,
         verdict |-> market_position(price, competitor1, competitor2),
         widgets |-> [w EXCEPT
             !.material_cost = keep_entry(@, attributes.material),
             !.competitor1 = keep_entry(@, default1),
             !.competitor2 = keep_entry(@, default2)],
         generate_calls |-> 1,
         price_calls |-> 1 + margin_points + 1,   \* lines 157, 169, 187
         rng |-> rng_advance(s_after, 30)]

(***************************************************************************)
(* Bounds of the input sets.                                               *)
(***************************************************************************)
MaxCost == 40

MaxMarginStep == 26

MaxDays == 4

MaxNow == 3

MaxSeed == 3

MaxRuns == 3

\* base_cost: -1.0, -0.5, 0, 0.5, ..., MaxCost / 2
CostValues == {Rat(k, 2) : k \in (0 - 2)..MaxCost}

\* margin: -0.10, -0.05, 0, ..., 1.00, 1.05, ... in steps of 0.05
MarginValues == {Rat(5 * k - 10, 100) : k \in 0..MaxMarginStep}

\* volume_discount: the closed interval [0, 1] in steps of 0.1
DiscountValues == {Rat(k, 10) : k \in 0..10}

DaysValues == ((0 - 2)..MaxDays) \cup {days_default}

NowValues == 0..MaxNow

SeedValues == {(1000 * k) % RngModulus : k \in 0..MaxSeed}

idle_session ==
    /\ rng = 0
    /\ clock = 0
    /\ widgets = None
    /\ df = None
    /\ gen_calls = 0
    /\ price_calls = 0
    /\ view = None
    /\ runs = 0

(***************************************************************************)
(* SpecPrice: the pricing formula called on arbitrary arguments.           *)
(***************************************************************************)
InitPrice ==
    /\ idle_session
    /\ ret = Pending
    /\ \/ \E c \in CostValues, m \in MarginValues, vd \in DiscountValues :
              call = [fn |-> "calculate_price", base_cost |-> c, margin |-> m,
                      volume_discount |-> vd]
       \/ \E c \in CostValues, m \in MarginValues :
              call = [fn |-> "calculate_price2", base_cost |-> c, margin |-> m]
       \/ \E c \in CostValues, vd \in {RZero, Rat(5, 100), Rat(20, 100)} :
              call = [fn |-> "price_sensitivity", base_cost |-> c,
                      volume_discount |-> vd]

CallPrice ==
    /\ call.fn = "calculate_price"
    /\ ret = Pending
    /\ ret' = calculate_price(call.base_cost, call.margin, call.volume_discount)
    /\ UNCHANGED <<call, session_vars>>

CallPriceDefault ==
    /\ call.fn = "calculate_price2"
    /\ ret = Pending
    /\ ret' = calculate_price2(call.base_cost, call.margin)
    /\ UNCHANGED <<call, session_vars>>

CallSweep ==
    /\ call.fn = "price_sensitivity"
    /\ ret = Pending
    /\ ret' = Return(price_sensitivity(call.base_cost, call.volume_discount))
    /\ UNCHANGED <<call, session_vars>>

NextPrice == CallPrice \/ CallPriceDefault \/ CallSweep

SpecPrice == InitPrice /\ [][NextPrice]_vars

(***************************************************************************)
(* SpecGen: the generator called with an arbitrary day count, clock and    *)
(* random-source state.                                                    *)
(***************************************************************************)
InitGen ==
    /\ idle_session
    /\ ret = Pending
    /\ \E days \in DaysValues, now \in NowValues, s \in SeedValues :
           call = [fn |-> "generate_fake_data", days |-> days, now |-> now,
                   seed |-> s]

CallGenerate ==
    /\ call.fn = "generate_fake_data"
    /\ ret = Pending
    /\ ret' = generate_fake_data(call.days, call.now, call.seed)
    /\ UNCHANGED <<call, session_vars>>

NextGen == CallGenerate

SpecGen == InitGen /\ [][NextGen]_vars

(***************************************************************************)
(* SpecVolume: one Order_Volume entry of the default 365-day table, for    *)
(* every day index and every value np.random.randint(50, 500) can draw.    *)
(***************************************************************************)
InitVolume ==
    /\ idle_session
    /\ ret = Pending
    /\ \E i \in 0..(days_default - 1), r \in 50..(500 - 1) :
           call = [fn |-> "Order_Volume", day_index |-> i, draw |-> r]

CallVolume ==
    /\ call.fn = "Order_Volume"
    /\ ret = Pending
    /\ ret' = Return(Order_Volume_entry(call.draw, call.day_index))
    /\ UNCHANGED <<call, session_vars>>

NextVolume == CallVolume

SpecVolume == InitVolume /\ [][NextVolume]_vars

(***************************************************************************)
(* Widget values a user can choose, and the widget state of a new session. *)
(***************************************************************************)
TargetMarginChoices == {Rat(10, 100), Rat(30, 100), Rat(50, 100)}

VolumeDiscountChoices == {RZero, Rat(5, 100), Rat(20, 100)}

ProductChoices == {"Rectangular Duct", "Flex Pipes", "Insulation Sleeves"}

MaterialCostChoices == {Rat(5, 10), Rat(50, 10)}

LaborHoursChoices == {Rat(5, 10), ROne, RInt(10)}

OverheadCostChoices == {RInt(5), RInt(10), RInt(50)}

CompetitorPriceChoices == {RZero, RInt(100), RInt(1000)}

widget_defaults ==
    [target_margin |-> Rat(3, 10),
     volume_discount |-> Rat(5, 100),
     product |-> "Rectangular Duct",
     material_cost |-> NoEntry,
     labor_hours |-> ROne,
     overhead_cost |-> RInt(10),
     competitor1 |-> NoEntry,
     competitor2 |-> NoEntry]

(***************************************************************************)
(* SpecMain: one run of main on arbitrary widget values.  A competitor     *)
(* price entered by the user is keyed by the default the widget had when   *)
(* it was drawn, 0.9 times the price shown.                                *)
(***************************************************************************)
MainSeeds == {0, 1000}

InitMain ==
    /\ idle_session
    /\ ret = Pending
    /\ \E s \in MainSeeds, m \in TargetMarginChoices,
          vd \in VolumeDiscountChoices, o \in {RInt(10)},
          c1 \in {NoEntry} \cup {Entry("shown", v) : v \in CompetitorPriceChoices} :
           LET w0 == [widget_defaults EXCEPT !.target_margin = m,
                          !.volume_discount = vd, !.overhead_cost = o]
           IN  \E table \in {generate_fake_data(days_default, 0, s).value} :
               \E shown \in {main_body(w0, table, s).price} :
                   call = [fn |-> "main", now |-> 0, seed |-> s,
                           w |-> [w0 EXCEPT !.competitor1 =
                                      IF c1 = NoEntry THEN NoEntry
                                      ELSE Entry(RMul(shown, Rat(9, 10)),
                                                 c1.value)]]

CallMain ==
    /\ call.fn = "main"
    /\ ret = Pending
    /\ \E gen \in {generate_fake_data(days_default, call.now, call.seed)} :
       \E ranges \in {cost_ranges(gen.value)} :
           ret' = Return(
               [run |-> main_body(call.w, gen.value,
                                  rng_after_generate(days_default, call.seed)),
                Z |-> cost_surface(ranges, call.w)])
    /\ UNCHANGED <<call, session_vars>>

NextMain == CallMain

SpecMain == InitMain /\ [][NextMain]_vars

(***************************************************************************)
(* Spec: a Streamlit session.  The script runs once when the session       *)
(* opens and again, from the top, after every widget interaction.  The     *)
(* random source belongs to the server process and keeps its state from    *)
(* one run to the next.  The view keeps what the pricing and competitor    *)
(* tabs display; the cost surface is not kept in the state.                *)
(***************************************************************************)
Init ==
    /\ call = None
    /\ ret = None
    /\ rng \in SeedValues
    /\ clock = 0
    /\ widgets = widget_defaults
    /\ df = None
    /\ view = None
    /\ runs = 0
    /\ gen_calls = 0
    /\ price_calls = 0

\* One run of the script with widget state w at time now.
RunMain(w, now) ==
    \E gen \in {generate_fake_data(days_default, now, rng)} :
    \E r \in {main_body(w, gen.value, rng_after_generate(days_default, rng))} :
        /\ rng' = r.rng
        /\ clock' = now
        /\ widgets' = r.widgets
        /\ df' = r.df
        /\ view' = [price |-> r.price, unit |-> r.unit,
                    breakdown |-> r.breakdown, prices |-> r.prices,
                    competitor1 |-> r.competitor1,
                    competitor2 |-> r.competitor2, verdict |-> r.verdict]
        /\ runs' = runs + 1
        /\ gen_calls' = gen_calls + r.generate_calls
        /\ price_calls' = price_calls + r.price_calls
        /\ UNCHANGED <<call, ret>>

OpenSession ==
    /\ runs = 0
    /\ RunMain(widgets, clock)

CanInteract == runs >= 1 /\ runs < MaxRuns

Later == {clock, clock + 1}

SetTargetMargin ==
    /\ CanInteract
    /\ \E v \in TargetMarginChoices \ {widgets.target_margin}, now \in Later :
           RunMain([widgets EXCEPT !.target_margin = v], now)

SetVolumeDiscount ==
    /\ CanInteract
    /\ \E v \in VolumeDiscountChoices \ {widgets.volume_discount}, now \in Later :
           RunMain([widgets EXCEPT !.volume_discount = v], now)

SelectProduct ==
    /\ CanInteract
    /\ \E p \in ProductChoices \ {widgets.product}, now \in Later :
           RunMain([widgets EXCEPT !.product = p], now)

SetMaterialCost ==
    /\ CanInteract
    /\ \E v \in MaterialCostChoices, now \in Later :
           RunMain([widgets EXCEPT !.material_cost =
                        Entry(PRODUCTS[widgets.product].material, v)], now)

SetLaborHours ==
    /\ CanInteract
    /\ \E v \in LaborHoursChoices \ {widgets.labor_hours}, now \in Later :
           RunMain([widgets EXCEPT !.labor_hours = v], now)

SetOverheadCost ==
    /\ CanInteract
    /\ \E v \in OverheadCostChoices \ {widgets.overhead_cost}, now \in Later :
           RunMain([widgets EXCEPT !.overhead_cost = v], now)

SetCompetitor1 ==
    /\ CanInteract
    /\ \E v \in CompetitorPriceChoices, now \in Later :
           RunMain([widgets EXCEPT !.competitor1 =
                        Entry(RMul(view.price, Rat(9, 10)), v)], now)

SetCompetitor2 ==
    /\ CanInteract
    /\ \E v \in CompetitorPriceChoices, now \in Later :
           RunMain([widgets EXCEPT !.competitor2 =
                        Entry(RMul(view.price, Rat(11, 10)), v)], now)

\* An attribute select box or a quality slider: no value main computes a
\* price from changes, and the script runs again all the same.
SetOtherWidget ==
    /\ CanInteract
    /\ \E now \in Later : RunMain(widgets, now)

Next ==
    \/ OpenSession
    \/ SetTargetMargin
    \/ SetVolumeDiscount
    \/ SelectProduct
    \/ SetMaterialCost
    \/ SetLaborHours
    \/ SetOverheadCost
    \/ SetCompetitor1
    \/ SetCompetitor2
    \/ SetOtherWidget

Spec == Init /\ [][Next]_vars

(***************************************************************************)
(* Properties of calculate_price, under SpecPrice.                         *)
(***************************************************************************)
Returned == ret.kind = "return"

PriceCallDone == call.fn = "calculate_price" /\ ret # Pending

InUnit(x) == RLe(RZero, x) /\ RLe(x, ROne)

ValidMargin(m) == RLe(RZero, m) /\ RLt(m, ROne)

Price(c, m, vd) == calculate_price(c, m, vd).value

\* C1: for base_cost > 0 and volume_discount in [0,1], every call with
\* margin = 1 or margin > 1 raises instead of returning a value.
C1_MarginAtLeastOneRaises ==
    (/\ PriceCallDone
     /\ RLt(RZero, call.base_cost)
     /\ InUnit(call.volume_discount)
     /\ RLe(ROne, call.margin))
        => ret.kind = "raise"

\* C3 as stated: for base_cost > 0, margin in [0,1) and volume_discount in
\* the closed interval [0,1], the call returns a strictly positive number.
C3_PositiveOnClosedInterval ==
    (/\ PriceCallDone
     /\ RLt(RZero, call.base_cost)
     /\ ValidMargin(call.margin)
     /\ InUnit(call.volume_discount))
        => (Returned /\ RLt(RZero, ret.value))

\* C3 amended: under the same preconditions the call returns a number that
\* is strictly positive when volume_discount < 1 and is 0 when
\* volume_discount = 1.
C3_PositiveBelowFullDiscount ==
    (/\ PriceCallDone
     /\ RLt(RZero, call.base_cost)
     /\ ValidMargin(call.margin)
     /\ InUnit(call.volume_discount))
        => /\ Returned
           /\ RLt(call.volume_discount, ROne) => RLt(RZero, ret.value)
           /\ call.volume_discount = ROne => ret.value = RZero

C3_Witness ==
    /\ PriceCallDone
    /\ call.base_cost = RInt(10)
    /\ call.margin = Rat(3, 10)
    /\ call.volume_discount = ROne
    /\ Returned
    /\ ret.value = RZero

SweepDone == call.fn = "price_sensitivity" /\ ret # Pending

\* C5 as stated: for margin in [0,1) and volume_discount in [0,1] the price
\* is strictly increasing in base_cost, and for base_cost > 0 strictly
\* increasing in margin over [0,1); the margin sweep of main is strictly
\* increasing from base_cost/0.9 to base_cost/0.5.
C5_StrictlyIncreasing ==
    /\ (/\ PriceCallDone
        /\ ValidMargin(call.margin)
        /\ InUnit(call.volume_discount))
           => /\ \A c2 \in CostValues :
                     RLt(call.base_cost, c2) =>
                         RLt(ret.value, Price(c2, call.margin, call.volume_discount))
              /\ RLt(RZero, call.base_cost) =>
                     \A m2 \in MarginValues :
                         (ValidMargin(m2) /\ RLt(call.margin, m2)) =>
                             RLt(ret.value,
                                 Price(call.base_cost, m2, call.volume_discount))
    /\ (SweepDone /\ RLt(RZero, call.base_cost))
           => /\ \A k \in 1..(margin_points - 1) :
                     RLt(ret.value[k].value, ret.value[k + 1].value)
              /\ ret.value[1].value = RQuot(call.base_cost, Rat(9, 10))
              /\ ret.value[margin_points].value = RQuot(call.base_cost, Rat(1, 2))

\* C5 amended: the price is strictly increasing in base_cost and (for
\* base_cost > 0) in margin whenever volume_discount < 1; at
\* volume_discount = 1 it is 0 whatever base_cost and margin are.  The
\* margin sweep of main, which omits volume_discount, is strictly increasing
\* from base_cost/0.9 to base_cost/0.5 for base_cost > 0.
C5_StrictlyIncreasingBelowFullDiscount ==
    /\ (/\ PriceCallDone
        /\ ValidMargin(call.margin)
        /\ InUnit(call.volume_discount))
           => /\ RLt(call.volume_discount, ROne) =>
                  /\ \A c2 \in CostValues :
                         RLt(call.base_cost, c2) =>
                             RLt(ret.value,
                                 Price(c2, call.margin, call.volume_discount))
                  /\ RLt(RZero, call.base_cost) =>
                         \A m2 \in MarginValues :
                             (ValidMargin(m2) /\ RLt(call.margin, m2)) =>
                                 RLt(ret.value,
                                     Price(call.base_cost, m2, call.volume_discount))
              /\ call.volume_discount = ROne => ret.value = RZero
    /\ (SweepDone /\ RLt(RZero, call.base_cost))
           => /\ \A k \in 1..(margin_points - 1) :
                     RLt(ret.value[k].value, ret.value[k + 1].value)
              /\ ret.value[1].value = RQuot(call.base_cost, Rat(9, 10))
              /\ ret.value[margin_points].value = RQuot(call.base_cost, Rat(1, 2))

\* The sweep for base_cost = 20 runs from 20/0.9 to 20/0.5 = 40.
C5_Witness ==
    /\ SweepDone
    /\ call.base_cost = RInt(20)
    /\ ret.value[1].value = Rat(200, 9)
    /\ ret.value[margin_points].value = RInt(40)

\* C6: for base_cost > 0, margin in [0,1) and volume_discount in [0,1] the
\* price is at most the undiscounted price, is non-increasing in the
\* discount, and equals the undiscounted price times (1 - volume_discount);
\* price(10, 0.3, 0.1) = price(10, 0.3, 0) * 0.9.
C6_DiscountNeverRaisesPrice ==
    (/\ PriceCallDone
     /\ RLt(RZero, call.base_cost)
     /\ ValidMargin(call.margin)
     /\ InUnit(call.volume_discount))
        => /\ Returned
           /\ RLe(ret.value, Price(call.base_cost, call.margin, RZero))
           /\ \A vd2 \in DiscountValues :
                  /\ RLe(call.volume_discount, vd2) =>
                         RLe(Price(call.base_cost, call.margin, vd2), ret.value)
                  /\ RLe(vd2, call.volume_discount) =>
                         RLe(ret.value, Price(call.base_cost, call.margin, vd2))
           /\ ret.value = RMul(Price(call.base_cost, call.margin, RZero),
                               RSub(ROne, call.volume_discount))

C6_Witness ==
    /\ PriceCallDone
    /\ call.base_cost = RInt(10)
    /\ call.margin = Rat(3, 10)
    /\ call.volume_discount = Rat(1, 10)
    /\ ret.value = RMul(Rat(100, 7), Rat(9, 10))

DefaultCallDone == call.fn = "calculate_price2" /\ ret # Pending

\* C7: for every base_cost and every margin < 1, the price at
\* volume_discount = 0 times (1 - margin) is base_cost again; a call that
\* omits volume_discount returns what the call with volume_discount = 0
\* returns.
C7_RoundTrip ==
    /\ (/\ PriceCallDone
        /\ RLt(call.margin, ROne)
        /\ call.volume_discount = RZero)
           => /\ Returned
              /\ RMul(ret.value, RSub(ROne, call.margin)) = call.base_cost
    /\ DefaultCallDone =>
           /\ ret = calculate_price(call.base_cost, call.margin, RZero)
           /\ RLt(call.margin, ROne) =>
                  /\ Returned
                  /\ RMul(ret.value, RSub(ROne, call.margin)) = call.base_cost

\* price(10, 0.3) = 100/7, and 100/7 * 0.7 = 10.
C7_Witness ==
    /\ DefaultCallDone
    /\ call.base_cost = RInt(10)
    /\ call.margin = Rat(3, 10)
    /\ ret.value = Rat(100, 7)
    /\ RMul(ret.value, Rat(7, 10)) = RInt(10)

(***************************************************************************)
(* Properties of generate_fake_data, under SpecGen.                        *)
(***************************************************************************)
GenerateDone == call.fn = "generate_fake_data" /\ ret # Pending

\* C2: generate_fake_data(days) raises, instead of returning a table, for
\* every days <= 0 (days = 0 and days = -1 among them).
C2_NonPositiveDaysRaises ==
    (GenerateDone /\ call.days <= 0) => ret.kind = "raise"

\* C4: for days > 0 the call returns a table of exactly days rows, every
\* column with days entries; consecutive dates are exactly one day apart,
\* the first is the end date minus (days - 1) days and the last is the end
\* date, now.
C4_RowsAndContiguousDates ==
    (GenerateDone /\ call.days > 0)
        => /\ Returned
           /\ DOMAIN ret.value = Columns
           /\ \A c \in Columns : Len(ret.value[c]) = call.days
           /\ \A k \in 1..(call.days - 1) :
                  ret.value.Date[k + 1] = ret.value.Date[k] + timedelta(1)
           /\ ret.value.Date[1] = call.now - timedelta(call.days - 1)
           /\ ret.value.Date[call.days] = call.now

C4_Witness ==
    /\ GenerateDone
    /\ call.days = days_default
    /\ Returned
    /\ Len(ret.value.Date) = days_default
    /\ ret.value.Date[days_default] = call.now

(***************************************************************************)
(* Properties of the Order_Volume column, under SpecVolume.                *)
(***************************************************************************)
VolumeDone == call.fn = "Order_Volume" /\ ret # Pending

\* C9: Order_Volume is not clamped.  An entry is the integer draw from
\* [50, 500) plus 100*sin(2*pi*day_index/365): it always lies in
\* [50 - 100, 499 + 100], and a draw of 50 on a day whose seasonal term is
\* below -50 gives an entry below 0.
C9_OrderVolumeNotClamped ==
    VolumeDone
        => /\ (50 - 100) * Scale <= ret.value
           /\ ret.value <= (499 + 100) * Scale
           /\ (call.draw = 50 /\ seasonal(100 * Scale, call.day_index) < (0 - 50) * Scale)
                  => ret.value < 0

\* Day 274 of the default 365-day table, where the seasonal term is -100.
C9_Witness ==
    /\ VolumeDone
    /\ call.draw = 50
    /\ call.day_index = 274
    /\ call.day_index < days_default
    /\ ret.value < 0

(***************************************************************************)
(* Properties of the session, under Spec.                                  *)
(***************************************************************************)
\* C8: within a session the generator is invoked exactly once.  After the
\* first run of main, a widget interaction re-invokes calculate_price only,
\* never generate_fake_data, and the table stays the same.
C8_GeneratedOncePerSession ==
    [][runs >= 1 =>
          (gen_calls' = gen_calls /\ df' = df /\ price_calls' > price_calls)]_vars

(***************************************************************************)
(* Properties of one run of main, under SpecMain.                          *)
(***************************************************************************)
MainDone == call.fn = "main" /\ ret # Pending

\* C10: the Volume Discount slider never influences a computed price.  A
\* run of main on the same table and the same other inputs, with any other
\* volume_discount, shows the same price, the same margin-sensitivity price
\* list, the same cost surface Z and the same competitor comparison.
C10_VolumeDiscountIgnored ==
    MainDone =>
        \A vd2 \in VolumeDiscountChoices \ {call.w.volume_discount} :
        \A w2 \in {[call.w EXCEPT !.volume_discount = vd2]} :
        \A run2 \in {main_body(w2, ret.value.run.df,
                               rng_after_generate(days_default, call.seed))} :
        \A ranges \in {cost_ranges(ret.value.run.df)} :
            /\ run2.price = ret.value.run.price
            /\ run2.prices = ret.value.run.prices
            /\ run2.competitor1 = ret.value.run.competitor1
            /\ run2.competitor2 = ret.value.run.competitor2
            /\ run2.verdict = ret.value.run.verdict
            /\ cost_surface(ranges, w2) = ret.value.Z

\* A run with the slider at 0.2 and a competitor price of 1000 entered.
C10_Witness ==
    /\ MainDone
    /\ call.w.volume_discount = Rat(20, 100)
    /\ ret.value.run.competitor1 = RInt(1000)
    /\ ret.value.run.verdict = "success"
    /\ ret.value.run.price =
           calculate_price(RAdd(RAdd(ret.value.run.breakdown[1],
                                     ret.value.run.breakdown[2]),
                                ret.value.run.breakdown[3]),
                           call.w.target_margin, RZero).value

=============================================================================
